---- MODULE Spec2Model ----
(***************************************************************************)
(* A model of the ddragon client (src/src/client.rs): version resolution   *)
(* at construction, URL construction, the cache-aside retrieval of         *)
(* get_data, and the decoding of the summoner-spell document               *)
(* (src/src/models/summoner_spells.rs).                                    *)
(*                                                                         *)
(* Text that is parsed as a URL is a sequence of tokens: "/" and "." are   *)
(* tokens of their own, every other token is a run of characters that URL  *)
(* parsing leaves alone.  A URL is an origin and a list of path segments.  *)
(***************************************************************************)
EXTENDS Integers, Sequences, FiniteSets, TLC

VARIABLES
    client,     \* the DDragonClient made last: None, or Some(client)
    cache,      \* the cacache store of each cache directory: key -> bytes
    last,       \* what the client's last operation did and returned
    calls       \* the call of get_data that each thread is in the middle of

vars == <<client, cache, last, calls>>

----------------------------------------------------------------------------
(* Bounds of the model *)

\* longest version list the version endpoint returns
MaxVersions == 3
\* longest version string, in tokens, drawn for the URL construction
MaxVersionLen == 3
\* most entries the cache directory holds
MaxCacheEntries == 1
\* most threads that call the accessors of one client at a time
MaxThreads == 2

----------------------------------------------------------------------------
(* URLs: url::Url as used by client.rs *)

Slash == "/"
Dot == "."

\* The text of a path, cut at every "/": "a/b/" is <<a, b, <<>>>>.
RECURSIVE SplitSegments(_)
SplitSegments(s) ==
    IF s = <<>> THEN << <<>> >>
    ELSE LET rest == SplitSegments(Tail(s))
         IN  IF Head(s) = Slash
             THEN << <<>> >> \o rest
             ELSE << <<Head(s)>> \o Head(rest) >> \o Tail(rest)

IsSingleDot(seg) == seg = <<Dot>>
IsDoubleDot(seg) == seg = <<Dot, Dot>>

\* The path state of URL parsing: ".." removes the segment before it, "."
\* is dropped, and either leaves an empty segment when it ends the path.
RECURSIVE PathState(_, _)
PathState(path, segs) ==
    IF segs = <<>> THEN path
    ELSE LET seg    == Head(segs)
             isLast == Len(segs) = 1
             popped == IF path = <<>> THEN path ELSE SubSeq(path, 1, Len(path) - 1)
         IN  IF IsDoubleDot(seg)
             THEN PathState(IF isLast THEN popped \o << <<>> >> ELSE popped, Tail(segs))
             ELSE IF IsSingleDot(seg)
             THEN PathState(IF isLast THEN path \o << <<>> >> ELSE path, Tail(segs))
             ELSE PathState(path \o <<seg>>, Tail(segs))

\* Url::parse of an absolute URL text: the origin, then an optional path.
UrlParse(s) ==
    [origin |-> Head(s),
     path   |-> IF Len(s) > 1 /\ s[2] = Slash
                THEN PathState(<<>>, SplitSegments(SubSeq(s, 3, Len(s))))
                ELSE << <<>> >>]

\* Url::join: a reference starting with "/" replaces the path of the base;
\* any other reference replaces the last segment of the path of the base.
UrlJoin(base, ref) ==
    IF ref = <<>> THEN base
    ELSE IF Head(ref) = Slash
    THEN [origin |-> base.origin,
          path   |-> PathState(<<>>, SplitSegments(Tail(ref)))]
    ELSE [origin |-> base.origin,
          path   |-> PathState(SubSeq(base.path, 1, Len(base.path) - 1),
                               SplitSegments(ref))]

RECURSIVE PathText(_)
PathText(path) ==
    IF path = <<>> THEN <<>> ELSE <<Slash>> \o Head(path) \o PathText(Tail(path))

\* Url::as_str: the serialization of the URL.
AsStr(url) == <<url.origin>> \o PathText(url.path)

----------------------------------------------------------------------------
(* Responses and JSON texts *)

\* A response of the server, or the bytes of a cache entry.  kind is
\*   "fail"       the request did not complete (transport error, error status)
\*   "unreadable" the body could not be read
\*   "garbage"    a body that is not JSON
\*   "array"      a JSON array, its elements in items
\*   "object"     a JSON object with the members named in fields
Text(kind, items, fields, version, data) ==
    [kind |-> kind, items |-> items, fields |-> fields,
     version |-> version, data |-> data]

NoText == Text("none", <<>>, {}, "", <<>>)
\* An entry of the cache whose content cannot be read back.
CorruptEntry == Text("corrupt", <<>>, {}, "", <<>>)
TransportFailure == Text("fail", <<>>, {}, "", <<>>)
BodyReadFailure == Text("unreadable", <<>>, {}, "", <<>>)
Garbage == Text("garbage", <<>>, {}, "", <<>>)
JArray(items) == Text("array", items, {}, "", <<>>)
JObject(fields, version, data) == Text("object", <<>>, fields, version, data)

\* An element of a JSON array: a string, or a number.
JString(s) == [type |-> "string", text |-> s]
JNumber(s) == [type |-> "number", text |-> s]

----------------------------------------------------------------------------
(* models/summoner_spells.rs *)

DecodeError == "DecodeError"

\* A mutant of DecodeCostType: an unknown cost type is taken for NoCost.
DecodeCostTypeLenient(s) ==
    IF s = "&nbsp;" THEN "Nbsp" ELSE "NoCost"

\* enum CostType: "&nbsp;" is Nbsp, "No Cost" is NoCost, nothing else decodes.
DecodeCostType(s) ==
    CASE s = "&nbsp;"  -> "Nbsp"
      [] s = "No Cost" -> "NoCost"
      [] OTHER         -> DecodeError

\* Serialize of CostType.
EncodeCostType(v) ==
    CASE v = "Nbsp"   -> "&nbsp;"
      [] v = "NoCost" -> "No Cost"

\* enum SummonerSpellSprite: "spell0.png" only.
DecodeSummonerSpellSprite(s) ==
    IF s = "spell0.png" THEN "Spell0Png" ELSE DecodeError

\* The members of struct SummonerSpell, by their names on the wire; none is
\* an Option, so each is required.
SummonerSpellFields ==
    {"id", "name", "description", "tooltip", "maxrank", "cooldown",
     "cooldownBurn", "cost", "costBurn", "effect", "effectBurn", "key",
     "summonerLevel", "modes", "costType", "maxammo", "range", "rangeBurn",
     "image", "resource"}

\* A JSON object written as an entry of the data mapping.
Entry(fields, costType, resource, sprite) ==
    [fields |-> fields, costType |-> costType, resource |-> resource,
     sprite |-> sprite]

\* Image<SummonerSpellSprite>: the sprite of the image reference decodes.
DecodeImage(e) == DecodeSummonerSpellSprite(e.sprite)

\* A decoded SummonerSpell: its members of enumerated type.
Spell(cost_type, resource, image) ==
    [cost_type |-> cost_type, resource |-> resource, image |-> image]

\* A decoded document: its version and the decoded entries of its data.
Document(version, data) == [version |-> version, data |-> data]
NoValue == Document("", <<>>)

\* Result<T, E> of a decoding step.
Decoded(v) == [ok |-> TRUE, value |-> v]
NotDecoded == [ok |-> FALSE, value |-> NoValue]

\* Deserialize of SummonerSpell: every member is present, and the members
\* of enumerated type hold one of their wire strings.
SummonerSpellDecodes(e) ==
    /\ SummonerSpellFields \subseteq e.fields
    /\ DecodeCostType(e.costType) # DecodeError
    /\ DecodeCostType(e.resource) # DecodeError
    /\ DecodeImage(e) # DecodeError

DecodeSummonerSpell(e) ==
    Spell(DecodeCostType(e.costType), DecodeCostType(e.resource), DecodeImage(e))

\* Deserialize of SummonerSpells: version and data are required, and every
\* entry of data is a SummonerSpell.
DecodeSummonerSpells(t) ==
    IF /\ t.kind = "object"
       /\ {"version", "data"} \subseteq t.fields
       /\ \A i \in 1..Len(t.data) : SummonerSpellDecodes(t.data[i])
    THEN Decoded(Document(t.version,
                          [i \in 1..Len(t.data) |-> DecodeSummonerSpell(t.data[i])]))
    ELSE NotDecoded

\* Deserialize of the five document types whose modules are not among the
\* sources: version and data are required; the entries of the sample
\* documents are summoner spells, which are not entries of these types.
DecodeOtherDocument(t) ==
    IF /\ t.kind = "object"
       /\ {"version", "data"} \subseteq t.fields
       /\ t.data = <<>>
    THEN Decoded(Document(t.version, <<>>))
    ELSE NotDecoded

DocTypes ==
    {"Challenges", "Champions", "Items", "Runes", "SummonerSpells", "Translations"}

\* serde_json::from_str::<T> and from_slice::<T>.
FromStr(T, t) ==
    IF T = "SummonerSpells" THEN DecodeSummonerSpells(t) ELSE DecodeOtherDocument(t)

\* Response::into_json::<Vec<String>>: a JSON array whose elements are all
\* strings.
IntoVersionList(t) ==
    IF t.kind = "array" /\ \A i \in 1..Len(t.items) : t.items[i].type = "string"
    THEN [ok |-> TRUE, value |-> [i \in 1..Len(t.items) |-> t.items[i].text]]
    ELSE [ok |-> FALSE, value |-> <<>>]

----------------------------------------------------------------------------
(* client.rs: DDragonClient *)

\* Option<T>: None is the empty sequence, Some(x) is <<x>>.
None == <<>>
Some(x) == <<x>>

\* enum DDragonClientError, by the names of its variants.
DDragonClientError == {"UrlParse", "Request", "Parse", "JSONParse", "NoLatestVersion"}

\* struct DDragonClient (its agent carries no state of the model).
DDragonClient(version, base_url, cache_dir) ==
    [version |-> version, base_url |-> base_url, cache_dir |-> cache_dir]

\* The base URL of with_agent, and the one the tests substitute for it.
BaseUrlText == <<"https://ddragon.leagueoflegends.com">>
TestBaseUrlText == <<"http://127.0.0.1:1234">>

\* A mutant of create: the newest version is taken to be the last element.
createLastVersion(resp, cache_dir, base_url) ==
    LET version_list == IntoVersionList(resp)
    IN  IF resp.kind = "fail"
        THEN [ok |-> FALSE, err |-> "Request", client |-> None]
        ELSE IF ~version_list.ok
        THEN [ok |-> FALSE, err |-> "Parse", client |-> None]
        ELSE IF version_list.value = <<>>
        THEN [ok |-> FALSE, err |-> "NoLatestVersion", client |-> None]
        ELSE [ok |-> TRUE, err |-> "",
              client |-> Some(DDragonClient(
                  version_list.value[Len(version_list.value)], base_url, cache_dir))]

\* A mutant of create: an empty version list gives a client with an empty
\* version.
createEmptyVersion(resp, cache_dir, base_url) ==
    LET version_list == IntoVersionList(resp)
    IN  IF resp.kind = "fail"
        THEN [ok |-> FALSE, err |-> "Request", client |-> None]
        ELSE IF ~version_list.ok
        THEN [ok |-> FALSE, err |-> "Parse", client |-> None]
        ELSE [ok |-> TRUE, err |-> "",
              client |-> Some(DDragonClient(
                  IF version_list.value = <<>> THEN <<>> ELSE version_list.value[1],
                  base_url, cache_dir))]

\* A mutant of create: a body that does not decode is taken for an empty
\* version list.
createDecodeDefault(resp, cache_dir, base_url) ==
    LET version_list == IntoVersionList(resp)
    IN  IF resp.kind = "fail"
        THEN [ok |-> FALSE, err |-> "Request", client |-> None]
        ELSE IF ~version_list.ok \/ version_list.value = <<>>
        THEN [ok |-> FALSE, err |-> "NoLatestVersion", client |-> None]
        ELSE [ok |-> TRUE, err |-> "",
              client |-> Some(DDragonClient(version_list.value[1], base_url, cache_dir))]

\* A mutant of create: a failed request leaves a client without a version.
createPartial(resp, cache_dir, base_url) ==
    LET version_list == IntoVersionList(resp)
    IN  IF resp.kind = "fail"
        THEN [ok |-> FALSE, err |-> "Request",
              client |-> Some(DDragonClient(<<>>, base_url, cache_dir))]
        ELSE IF ~version_list.ok
        THEN [ok |-> FALSE, err |-> "Parse", client |-> None]
        ELSE IF version_list.value = <<>>
        THEN [ok |-> FALSE, err |-> "NoLatestVersion", client |-> None]
        ELSE [ok |-> TRUE, err |-> "",
              client |-> Some(DDragonClient(version_list.value[1], base_url, cache_dir))]

\* DDragonClient::create, given the response resp of the server to the
\* request of base_url.join("/api/versions.json"): the Result it returns.
create(resp, cache_dir, base_url) ==
    LET version_list == IntoVersionList(resp)
    IN  IF resp.kind = "fail"
        THEN [ok |-> FALSE, err |-> "Request", client |-> None]
        ELSE IF ~version_list.ok
        THEN [ok |-> FALSE, err |-> "Parse", client |-> None]
        ELSE IF version_list.value = <<>>
        THEN [ok |-> FALSE, err |-> "NoLatestVersion", client |-> None]
        ELSE [ok |-> TRUE, err |-> "",
              client |-> Some(DDragonClient(version_list.value[1], base_url, cache_dir))]

\* The URL that create requests.
VersionsUrl(base_url) ==
    UrlJoin(base_url, <<Slash, "api", Slash, "versions.json">>)

\* A mutant of get_data_url: the trailing slash is missing.
get_data_url_no_slash(c) ==
    UrlJoin(c.base_url, <<Slash, "cdn", Slash>> \o c.version
                            \o <<Slash, "data", Slash, "en_US">>)

\* A mutant of get_data_url: the version is left out of the path.
get_data_url_unversioned(c) ==
    UrlJoin(c.base_url, <<Slash, "cdn", Slash, "data", Slash, "en_US", Slash>>)

\* DDragonClient::get_data_url
get_data_url(c) ==
    UrlJoin(c.base_url, <<Slash, "cdn", Slash>> \o c.version
                            \o <<Slash, "data", Slash, "en_US", Slash>>)

\* The endpoint that each accessor passes to get_data.
Endpoint(T) ==
    CASE T = "Challenges"     -> <<Dot, Slash, "challenges.json">>
      [] T = "Champions"      -> <<Dot, Slash, "champion.json">>
      [] T = "Items"          -> <<Dot, Slash, "item.json">>
      [] T = "Runes"          -> <<Dot, Slash, "runesReforged.json">>
      [] T = "SummonerSpells" -> <<Dot, Slash, "summoner.json">>
      [] T = "Translations"   -> <<Dot, Slash, "language.json">>

\* A mutant of RequestUrl: the endpoint is joined to the base URL.
RequestUrlFromBase(c, endpoint) == AsStr(UrlJoin(c.base_url, endpoint))

\* request_url of get_data, get_data_url()?.join(endpoint)?.as_str(): the
\* key of the cache and the URL requested.
RequestUrl(c, endpoint) == AsStr(UrlJoin(get_data_url(c), endpoint))

----------------------------------------------------------------------------
(* The server, the cache directory, and the inputs drawn for them *)

RECURSIVE SeqsUpTo(_, _)
SeqsUpTo(S, n) ==
    IF n = 0 THEN {<<>>}
    ELSE LET shorter == SeqsUpTo(S, n - 1)
         IN  shorter \cup {Append(s, x) : s \in shorter, x \in S}

\* Version strings that the version endpoint may publish: those of the
\* tests, and the empty string.
Versions ==
    {<<"0", Dot, "0", Dot, "0">>, <<"1", Dot, "1", Dot, "1">>,
     <<"2", Dot, "2", Dot, "2">>, <<>>}

\* The responses of the version endpoint: no response, an unreadable body,
\* text that is not JSON, a JSON object, an array holding a number, and the
\* arrays of at most MaxVersions version strings.
VersionResponses ==
    {TransportFailure, BodyReadFailure, Garbage,
     JObject({"version", "data"}, "10.1.1", <<>>),
     JArray(<<JNumber(<<"0">>)>>)}
    \cup {JArray(l) : l \in SeqsUpTo({JString(v) : v \in Versions}, MaxVersions)}

\* What the version endpoint answers while the clients of Spec are made: the
\* newest version is 1.1.1, or the endpoint fails in one of four ways.
NewestVersion == <<"1", Dot, "1", Dot, "1">>
PublishedNow ==
    {TransportFailure, Garbage, JArray(<<>>), JArray(<<JNumber(<<"0">>)>>),
     JArray(<<JString(NewestVersion), JString(<<"0", Dot, "0", Dot, "0">>)>>)}

\* Documents: the one of the end-to-end scenario, an older one, one without
\* its version, and summoner-spell documents with one spell.
EmptyDoc == JObject({"version", "data"}, "10.1.1", <<>>)
OlderDoc == JObject({"version", "data"}, "10.1.0", <<>>)
NoVersionDoc == JObject({"data"}, "", <<>>)
SpellDoc(fields, costType) ==
    JObject({"type", "version", "data"}, "10.1.1",
            <<Entry(fields, costType, "No Cost", "spell0.png")>>)

\* The responses of a data endpoint.
DataResponses ==
    {TransportFailure, BodyReadFailure, Garbage, EmptyDoc, OlderDoc, NoVersionDoc,
     SpellDoc(SummonerSpellFields, "&nbsp;"),
     SpellDoc(SummonerSpellFields, "Mana"),
     SpellDoc(SummonerSpellFields \ {"name"}, "&nbsp;")}

\* What another program may leave under a key of the cache directory.
CacheTexts ==
    {CorruptEntry, Garbage, EmptyDoc, OlderDoc, SpellDoc(SummonerSpellFields, "&nbsp;")}

CacheDirs == {"cache"}

\* The version strings of at most MaxVersionLen tokens, for the URL
\* construction.
VersionTokens == {"0", "1", Dot, Slash}
VersionTexts == SeqsUpTo(VersionTokens, MaxVersionLen) \cup Versions

BaseUrlTexts == {BaseUrlText, TestBaseUrlText}

\* The keys under which the clients of Spec read and write.
CacheKeys ==
    {RequestUrl(DDragonClient(NewestVersion, UrlParse(BaseUrlText), None), Endpoint(T)) :
        T \in DocTypes}

\* The cache directory has room for an entry under key.
HasRoom(store, key) ==
    key \in DOMAIN store \/ Cardinality(DOMAIN store) < MaxCacheEntries

----------------------------------------------------------------------------
(* client.rs: get_data *)

\* cacache::read_sync(dir, key) on the store of a directory.
ReadSync(store, key) ==
    IF key \in DOMAIN store /\ store[key].kind # "corrupt"
    THEN [ok |-> TRUE, data |-> store[key]]
    ELSE [ok |-> FALSE, data |-> NoText]

\* cacache::write_sync(dir, key, data) on the store of a directory.
WriteSync(store, key, data) ==
    [k \in DOMAIN store \cup {key} |-> IF k = key THEN data ELSE store[k]]

\* A mutant of CacheLookup: whatever bytes the cache holds are a hit.
CacheLookupNoDecode(c, stores, T, request_url) ==
    IF c.cache_dir # None /\ ReadSync(stores[c.cache_dir[1]], request_url).ok
    THEN LET parsed == FromStr(T, ReadSync(stores[c.cache_dir[1]], request_url).data)
         IN  [hit |-> TRUE, value |-> parsed.value]
    ELSE [hit |-> FALSE, value |-> NoValue]

\* A mutant of CacheLookup: the cache is never consulted.
CacheLookupNever(c, stores, T, request_url) ==
    [hit |-> FALSE, value |-> NoValue]

\* A mutant of CacheLookup: without a cache directory, a default directory
\* is read.
CacheLookupDefaultDir(c, stores, T, request_url) ==
    LET dir == IF c.cache_dir # None THEN c.cache_dir[1] ELSE "cache"
    IN  IF ReadSync(stores[dir], request_url).ok
        THEN LET parsed == FromStr(T, ReadSync(stores[dir], request_url).data)
             IN  [hit |-> parsed.ok, value |-> parsed.value]
        ELSE [hit |-> FALSE, value |-> NoValue]

\* The first block of get_data: with a cache directory, the bytes read under
\* request_url, when they are read and decode into T, are the value returned.
CacheLookup(c, stores, T, request_url) ==
    IF c.cache_dir # None /\ ReadSync(stores[c.cache_dir[1]], request_url).ok
    THEN LET parsed == FromStr(T, ReadSync(stores[c.cache_dir[1]], request_url).data)
         IN  [hit |-> parsed.ok, value |-> parsed.value]
    ELSE [hit |-> FALSE, value |-> NoValue]

\* A mutant of Fetch: a failed request is answered with an empty document.
FetchSwallowsFailure(T, resp) ==
    IF resp.kind = "fail"
    THEN [ok |-> TRUE, err |-> "", value |-> NoValue]
    ELSE IF resp.kind = "unreadable"
    THEN [ok |-> FALSE, err |-> "Parse", value |-> NoValue]
    ELSE IF ~FromStr(T, resp).ok
    THEN [ok |-> FALSE, err |-> "JSONParse", value |-> NoValue]
    ELSE [ok |-> TRUE, err |-> "", value |-> FromStr(T, resp).value]

\* A mutant of Fetch: a body that does not decode gives an empty document.
FetchDecodeDefault(T, resp) ==
    IF resp.kind = "fail"
    THEN [ok |-> FALSE, err |-> "Request", value |-> NoValue]
    ELSE IF resp.kind = "unreadable"
    THEN [ok |-> FALSE, err |-> "Parse", value |-> NoValue]
    ELSE [ok |-> TRUE, err |-> "", value |-> FromStr(T, resp).value]

\* The request of get_data: agent.get(request_url).call(), into_string and
\* serde_json::from_str, each of which returns its error to the caller.
Fetch(T, resp) ==
    IF resp.kind = "fail"
    THEN [ok |-> FALSE, err |-> "Request", value |-> NoValue]
    ELSE IF resp.kind = "unreadable"
    THEN [ok |-> FALSE, err |-> "Parse", value |-> NoValue]
    ELSE IF ~FromStr(T, resp).ok
    THEN [ok |-> FALSE, err |-> "JSONParse", value |-> NoValue]
    ELSE [ok |-> TRUE, err |-> "", value |-> FromStr(T, resp).value]

\* A mutant of CacheWrite: a write under a key that has an entry adds the
\* response text to the bytes of the entry, which together are not JSON.
CacheWriteAppended(c, stores, request_url, resp, stored) ==
    IF c.cache_dir # None /\ stored
    THEN [stores EXCEPT ![c.cache_dir[1]] =
             WriteSync(@, request_url,
                       IF request_url \in DOMAIN @ THEN Garbage ELSE resp)]
    ELSE stores

\* A mutant of CacheWrite: the response text is not written.
CacheWriteDropped(c, stores, request_url, resp, stored) == stores

\* The last block of get_data: with a cache directory, the response text is
\* written under request_url; stored tells whether the store took it.
CacheWrite(c, stores, request_url, resp, stored) ==
    IF c.cache_dir # None /\ stored
    THEN [stores EXCEPT ![c.cache_dir[1]] = WriteSync(@, request_url, resp)]
    ELSE stores

\* What an operation did: the request URL, the Result returned, the number
\* of requests sent to the server and the response to them, whether the
\* value came from the cache, and the outcome of the cache write.
Outcome(op, url, ok, err, value, net, resp, hit, wrote) ==
    [op |-> op, url |-> url, ok |-> ok, err |-> err, value |-> value,
     net |-> net, resp |-> resp, hit |-> hit, wrote |-> wrote]

\* A mutant of get_data: the result of write_sync is returned with `?`, so a
\* write the store does not take fails the call.
get_dataWriteChecked(c, stores, T, request_url, resp, stored) ==
    LET cached  == CacheLookup(c, stores, T, request_url)
        fetched == Fetch(T, resp)
    IN  IF cached.hit
        THEN [out    |-> Outcome(T, request_url, TRUE, "", cached.value,
                                 0, NoText, TRUE, "none"),
              stores |-> stores]
        ELSE IF ~fetched.ok
        THEN [out    |-> Outcome(T, request_url, FALSE, fetched.err, NoValue,
                                 1, resp, FALSE, "none"),
              stores |-> stores]
        ELSE IF c.cache_dir # None /\ ~stored
        THEN [out    |-> Outcome(T, request_url, FALSE, "Parse", NoValue,
                                 1, resp, FALSE, "failed"),
              stores |-> stores]
        ELSE [out    |-> Outcome(T, request_url, TRUE, "", fetched.value,
                                 1, resp, FALSE,
                                 IF c.cache_dir = None THEN "none" ELSE "ok"),
              stores |-> CacheWrite(c, stores, request_url, resp, stored)]

\* A mutant of get_data: an entry of the cache that is read but does not
\* decode fails the call with the decode error.
get_dataCacheError(c, stores, T, request_url, resp, stored) ==
    LET cached  == CacheLookup(c, stores, T, request_url)
        fetched == Fetch(T, resp)
        read    == IF c.cache_dir # None
                   THEN ReadSync(stores[c.cache_dir[1]], request_url).ok
                   ELSE FALSE
    IN  IF cached.hit
        THEN [out    |-> Outcome(T, request_url, TRUE, "", cached.value,
                                 0, NoText, TRUE, "none"),
              stores |-> stores]
        ELSE IF read
        THEN [out    |-> Outcome(T, request_url, FALSE, "JSONParse", NoValue,
                                 1, resp, FALSE, "none"),
              stores |-> stores]
        ELSE IF ~fetched.ok
        THEN [out    |-> Outcome(T, request_url, FALSE, fetched.err, NoValue,
                                 1, resp, FALSE, "none"),
              stores |-> stores]
        ELSE [out    |-> Outcome(T, request_url, TRUE, "", fetched.value,
                                 1, resp, FALSE,
                                 IF c.cache_dir = None THEN "none"
                                 ELSE IF stored THEN "ok" ELSE "failed"),
              stores |-> CacheWrite(c, stores, request_url, resp, stored)]

\* A mutant of get_data: a request that fails is sent a second time.
get_dataRetry(c, stores, T, request_url, resp, stored) ==
    LET cached  == CacheLookup(c, stores, T, request_url)
        fetched == Fetch(T, resp)
    IN  IF cached.hit
        THEN [out    |-> Outcome(T, request_url, TRUE, "", cached.value,
                                 0, NoText, TRUE, "none"),
              stores |-> stores]
        ELSE IF ~fetched.ok
        THEN [out    |-> Outcome(T, request_url, FALSE, fetched.err, NoValue,
                                 IF resp.kind = "fail" THEN 2 ELSE 1,
                                 resp, FALSE, "none"),
              stores |-> stores]
        ELSE [out    |-> Outcome(T, request_url, TRUE, "", fetched.value,
                                 1, resp, FALSE,
                                 IF c.cache_dir = None THEN "none"
                                 ELSE IF stored THEN "ok" ELSE "failed"),
              stores |-> CacheWrite(c, stores, request_url, resp, stored)]

\* A mutant of get_data: the response text is written to the cache as soon
\* as it is read, before it is decoded.
get_dataWriteFirst(c, stores, T, request_url, resp, stored) ==
    LET cached  == CacheLookup(c, stores, T, request_url)
        fetched == Fetch(T, resp)
    IN  IF cached.hit
        THEN [out    |-> Outcome(T, request_url, TRUE, "", cached.value,
                                 0, NoText, TRUE, "none"),
              stores |-> stores]
        ELSE IF ~fetched.ok
        THEN [out    |-> Outcome(T, request_url, FALSE, fetched.err, NoValue,
                                 1, resp, FALSE, "none"),
              stores |-> IF fetched.err = "JSONParse"
                         THEN CacheWrite(c, stores, request_url, resp, stored)
                         ELSE stores]
        ELSE [out    |-> Outcome(T, request_url, TRUE, "", fetched.value,
                                 1, resp, FALSE,
                                 IF c.cache_dir = None THEN "none"
                                 ELSE IF stored THEN "ok" ELSE "failed"),
              stores |-> CacheWrite(c, stores, request_url, resp, stored)]

\* DDragonClient::get_data::<T> on client c from its request_url on, the
\* server answering resp if it is asked: the outcome, and the stores
\* afterwards.
get_data(c, stores, T, request_url, resp, stored) ==
    LET cached  == CacheLookup(c, stores, T, request_url)
        fetched == Fetch(T, resp)
    IN  IF cached.hit
        THEN [out    |-> Outcome(T, request_url, TRUE, "", cached.value,
                                 0, NoText, TRUE, "none"),
              stores |-> stores]
        ELSE IF ~fetched.ok
        THEN [out    |-> Outcome(T, request_url, FALSE, fetched.err, NoValue,
                                 1, resp, FALSE, "none"),
              stores |-> stores]
        ELSE [out    |-> Outcome(T, request_url, TRUE, "", fetched.value,
                                 1, resp, FALSE,
                                 IF c.cache_dir = None THEN "none"
                                 ELSE IF stored THEN "ok" ELSE "failed"),
              stores |-> CacheWrite(c, stores, request_url, resp, stored)]

NoOutcome == Outcome("none", <<>>, FALSE, "", NoValue, 0, NoText, FALSE, "none")

\* A call of get_data::<T> in progress on a thread: where it is (pc), the
\* client it was called on, its request_url, and the response text once it
\* has one.
Call(pc, c, T, request_url, resp) ==
    [pc |-> pc, c |-> c, T |-> T, url |-> request_url, resp |-> resp]

NoCall == Call("idle", None, "none", <<>>, NoText)

Threads == 1..MaxThreads

----------------------------------------------------------------------------
(* The operations *)

Init ==
    /\ client = None
    /\ cache = [d \in CacheDirs |-> [k \in {} |-> NoText]]
    /\ last = NoOutcome
    /\ calls = [t \in Threads |-> NoCall]

\* DDragonClient::with_agent(agent, cache_dir): create with the base URL of
\* the build (base_text), the version endpoint answering one of responses.
with_agent(cache_dir, base_text, responses) ==
    \E base_url \in {UrlParse(base_text)} :
    \E url \in {AsStr(VersionsUrl(base_url))} :
    \E resp \in responses :
    \E made \in {create(resp, cache_dir, base_url)} :
        /\ client' = made.client
        /\ last' = Outcome("create", url, made.ok, made.err, NoValue, 1, resp, FALSE, "none")
        /\ UNCHANGED <<cache, calls>>

\* DDragonClient::with_cache(cache_dir)
with_cache == \E dir \in CacheDirs : with_agent(Some(dir), BaseUrlText, PublishedNow)

\* DDragonClient::new()
new == with_agent(None, BaseUrlText, PublishedNow)

\* A mutant of AccessorAgainst: a call that returns an error leaves the
\* client without its cache directory.
AccessorForgetful(T, endpoint, responses) ==
    /\ client # None
    /\ \E c \in {client[1]} :
       \E request_url \in {RequestUrl(c, endpoint)} :
       \E hit \in {CacheLookup(c, cache, T, request_url).hit} :
       \E resp \in IF hit THEN {NoText} ELSE responses :
       \E stored \in IF hit \/ c.cache_dir = None THEN {FALSE} ELSE BOOLEAN :
       \E got \in {get_data(c, cache, T, request_url, resp, stored)} :
           /\ stored => HasRoom(cache[c.cache_dir[1]], request_url)
           /\ last' = got.out
           /\ cache' = got.stores
           /\ client' = IF got.out.ok THEN client
                        ELSE Some([c EXCEPT !.cache_dir = None])
           /\ UNCHANGED calls

\* An accessor of the client: get_data::<T>(endpoint), the server answering
\* one of responses.  The server is asked only when the cache gives no
\* value, and the store takes the write only when a cache directory is
\* configured and has room.
AccessorAgainst(T, endpoint, responses) ==
    /\ client # None
    /\ \E c \in {client[1]} :
       \E request_url \in {RequestUrl(c, endpoint)} :
       \E hit \in {CacheLookup(c, cache, T, request_url).hit} :
       \E resp \in IF hit THEN {NoText} ELSE responses :
       \E stored \in IF hit \/ c.cache_dir = None THEN {FALSE} ELSE BOOLEAN :
       \E got \in {get_data(c, cache, T, request_url, resp, stored)} :
           /\ stored => HasRoom(cache[c.cache_dir[1]], request_url)
           /\ last' = got.out
           /\ cache' = got.stores
           /\ UNCHANGED <<client, calls>>

\* An accessor against a server that may answer anything.
Accessor(T, endpoint) == AccessorAgainst(T, endpoint, DataResponses)

challenges == Accessor("Challenges", <<Dot, Slash, "challenges.json">>)
champions == Accessor("Champions", <<Dot, Slash, "champion.json">>)
items == Accessor("Items", <<Dot, Slash, "item.json">>)
runes == Accessor("Runes", <<Dot, Slash, "runesReforged.json">>)
summoner_spells == Accessor("SummonerSpells", <<Dot, Slash, "summoner.json">>)
translations == Accessor("Translations", <<Dot, Slash, "language.json">>)

\* Another program writes, damages or removes an entry of the cache
\* directory; what the client did last is no longer the last thing done.
CacheDirectoryChanged ==
    \E dir \in CacheDirs, key \in CacheKeys :
        /\ \/ \E text \in CacheTexts :
                /\ HasRoom(cache[dir], key)
                /\ cache' = [cache EXCEPT ![dir] = WriteSync(@, key, text)]
           \/ /\ key \in DOMAIN cache[dir]
              /\ cache' = [cache EXCEPT ![dir] =
                              [k \in DOMAIN @ \ {key} |-> @[k]]]
        /\ last' = NoOutcome
        /\ UNCHANGED <<client, calls>>

Next ==
    \/ new
    \/ with_cache
    \/ challenges
    \/ champions
    \/ items
    \/ runes
    \/ summoner_spells
    \/ translations
    \/ CacheDirectoryChanged

Spec == Init /\ [][Next]_vars

----------------------------------------------------------------------------
(* Construction alone, against any answer of the version endpoint and with
   either base URL *)

NewAgainst ==
    \E b \in BaseUrlTexts : with_agent(None, b, VersionResponses)

WithCacheAgainst ==
    \E b \in BaseUrlTexts, dir \in CacheDirs : with_agent(Some(dir), b, VersionResponses)

NextCreate == NewAgainst \/ WithCacheAgainst

SpecCreate == Init /\ [][NextCreate]_vars

----------------------------------------------------------------------------
(* URL construction alone, for a client of any version text and either base
   URL *)

InitUrl ==
    /\ client \in {Some(DDragonClient(v, UrlParse(b), None)) :
                        v \in VersionTexts, b \in BaseUrlTexts}
    /\ cache = [d \in CacheDirs |-> [k \in {} |-> NoText]]
    /\ last = NoOutcome
    /\ calls = [t \in Threads |-> NoCall]

\* A call of get_data_url, as test::requests makes it.
DataUrl ==
    /\ client # None
    /\ last' = Outcome("get_data_url", AsStr(get_data_url(client[1])), TRUE, "",
                       NoValue, 0, NoText, FALSE, "none")
    /\ UNCHANGED <<client, cache, calls>>

NextUrl ==
    \/ DataUrl
    \/ challenges
    \/ champions
    \/ items
    \/ runes
    \/ summoner_spells
    \/ translations

SpecUrl == InitUrl /\ [][NextUrl]_vars

----------------------------------------------------------------------------
(* The client in front of a server whose documents do not change: each data
   URL is answered in one way, while the cache directory may hold anything *)

\* What the server answers to the request of accessor T.
Served(T) ==
    CASE T = "Challenges"     -> EmptyDoc
      [] T = "Champions"      -> TransportFailure
      [] T = "Items"          -> Garbage
      [] T = "Runes"          -> BodyReadFailure
      [] T = "SummonerSpells" -> SpellDoc(SummonerSpellFields, "&nbsp;")
      [] T = "Translations"   -> NoVersionDoc

\* A call of one of the six accessors.
ServedCall == \E T \in DocTypes : AccessorAgainst(T, Endpoint(T), {Served(T)})

NextServed ==
    \/ new
    \/ with_cache
    \/ ServedCall
    \/ CacheDirectoryChanged

SpecServed == Init /\ [][NextServed]_vars

----------------------------------------------------------------------------
(* Clients made one after the other, as the publisher moves from version to
   version, all with the same cache directory and nothing else writing to it *)

\* The versions the publisher lists first, one after the other: two plain
\* ones, and two that URL parsing rewrites.
SharedVersions ==
    {<<"0", Dot, "0", Dot, "0">>, NewestVersion,
     <<"0", Slash, Dot, Dot>>, <<"1", Slash, Dot, Dot>>}

\* DDragonClient::with_cache(cache_dir) while the newest version is v.
WithCacheAt ==
    \E dir \in CacheDirs, v \in SharedVersions :
        with_agent(Some(dir), BaseUrlText, {JArray(<<JString(v)>>)})

\* A call of one of the six accessors.
SharedCall ==
    \E T \in DocTypes :
        AccessorAgainst(T, Endpoint(T), {EmptyDoc, SpellDoc(SummonerSpellFields, "&nbsp;"),
                                         TransportFailure})

NextShared == WithCacheAt \/ SharedCall

SpecShared == Init /\ [][NextShared]_vars

----------------------------------------------------------------------------
(* One client called from several threads: get_data step by step, from the
   read of the cache to the request to the write, the steps of the threads
   interleaved.  Nothing but the client writes to the cache directory. *)

\* The accessors the threads call, and what the server may answer them.
ThreadTypes == {"Challenges", "SummonerSpells"}
ThreadResponses == {EmptyDoc, OlderDoc, TransportFailure}

\* The thread returns from its call.
Return(t, out) ==
    /\ last' = out
    /\ calls' = [calls EXCEPT ![t] = NoCall]

\* get_data, lines 84-85: the thread calls an accessor of the client and
\* has its request_url.
Begin(t) ==
    /\ client # None
    /\ calls[t].pc = "idle"
    /\ \E T \in ThreadTypes :
         calls' = [calls EXCEPT ![t] =
                      Call("lookup", client, T, RequestUrl(client[1], Endpoint(T)), NoText)]
    /\ UNCHANGED <<client, cache, last>>

\* get_data, lines 87-93: bytes of the cache that decode are returned.
Lookup(t) ==
    /\ calls[t].pc = "lookup"
    /\ \E call \in {calls[t]} :
       \E cached \in {CacheLookup(call.c[1], cache, call.T, call.url)} :
           IF cached.hit
           THEN Return(t, Outcome(call.T, call.url, TRUE, "", cached.value,
                                  0, NoText, TRUE, "none"))
           ELSE /\ calls' = [calls EXCEPT ![t].pc = "request"]
                /\ UNCHANGED last
    /\ UNCHANGED <<client, cache>>

\* get_data, lines 95-97: the request, the read of the body and its
\* decoding; an error of any of them is returned.
Request(t) ==
    /\ calls[t].pc = "request"
    /\ \E call \in {calls[t]} :
       \E resp \in ThreadResponses :
       \E fetched \in {Fetch(call.T, resp)} :
           IF fetched.ok
           THEN /\ calls' = [calls EXCEPT ![t].pc = "write", ![t].resp = resp]
                /\ UNCHANGED last
           ELSE Return(t, Outcome(call.T, call.url, FALSE, fetched.err, NoValue,
                                  1, resp, FALSE, "none"))
    /\ UNCHANGED <<client, cache>>

\* get_data, lines 99-103: the response text is written to the cache, if
\* the store takes it, and the decoded value is returned.
Write(t) ==
    /\ calls[t].pc = "write"
    /\ \E call \in {calls[t]} :
       \E stored \in IF call.c[1].cache_dir = None THEN {FALSE} ELSE BOOLEAN :
           /\ stored => HasRoom(cache[call.c[1].cache_dir[1]], call.url)
           /\ cache' = CacheWrite(call.c[1], cache, call.url, call.resp, stored)
           /\ Return(t, Outcome(call.T, call.url, TRUE, "", FromStr(call.T, call.resp).value,
                                1, call.resp, FALSE,
                                IF call.c[1].cache_dir = None THEN "none"
                                ELSE IF stored THEN "ok" ELSE "failed"))
    /\ UNCHANGED client

\* DDragonClient::with_cache(cache_dir), before any thread calls.
ThreadsClient ==
    /\ client = None
    /\ with_cache

NextThreads ==
    \/ ThreadsClient
    \/ \E t \in Threads : Begin(t)
    \/ \E t \in Threads : Lookup(t)
    \/ \E t \in Threads : Request(t)
    \/ \E t \in Threads : Write(t)

SpecThreads == Init /\ [][NextThreads]_vars

----------------------------------------------------------------------------
(* The decoding of the cost types: summoner_spells against documents of one
   spell whose costType and resource are any two of a set of wire strings *)

\* The two strings of enum CostType, and strings that are close to them or
\* are cost types of other games.
CostTypeTexts ==
    {"&nbsp;", "No Cost", "", " ", "&nbsp", "nbsp;", "Nbsp", "NoCost",
     "no cost", "No Cost ", "Mana", "Energy"}

\* summoner_spells, the server answering a document of one spell.
CostTypeCall ==
    \E costType \in CostTypeTexts, resource \in CostTypeTexts :
        AccessorAgainst("SummonerSpells", Endpoint("SummonerSpells"),
            {JObject({"type", "version", "data"}, "10.1.1",
                     <<Entry(SummonerSpellFields, costType, resource, "spell0.png")>>)})

NextCostType == new \/ CostTypeCall

SpecCostType == Init /\ [][NextCostType]_vars

----------------------------------------------------------------------------
(* Claims on construction, under SpecCreate *)

\* The elements of a JSON array are all strings.
AllStrings(t) == \A i \in 1..Len(t.items) : t.items[i].type = "string"

\* The variants of DDragonClientError that report "Could not parse JSON data."
DecodeErrors == {"Parse", "JSONParse"}

\* C1: whenever the version endpoint returns a list of one or more version
\* strings, construction succeeds and the version of the client is the first
\* element of the list, whatever follows it.
C1_FirstVersion ==
    (/\ last.op = "create"
     /\ last.resp.kind = "array"
     /\ AllStrings(last.resp)
     /\ Len(last.resp.items) >= 1)
    => /\ last.ok
       /\ client # None
       /\ client[1].version = last.resp.items[1].text

\* A list of three versions whose first element differs from the others
\* has given a client of the first.
C1_Witness ==
    /\ last.op = "create"
    /\ last.resp.kind = "array"
    /\ Len(last.resp.items) = 3
    /\ last.resp.items[1].text = <<"0", Dot, "0", Dot, "0">>
    /\ last.resp.items[2].text = <<"1", Dot, "1", Dot, "1">>
    /\ last.resp.items[3].text = <<"2", Dot, "2", Dot, "2">>
    /\ last.ok
    /\ client # None
    /\ client[1].version = <<"0", Dot, "0", Dot, "0">>

\* C2: when the version endpoint returns the empty list, construction fails
\* with NoLatestVersion and there is no client.
C2_NoLatestVersion ==
    (last.op = "create" /\ last.resp.kind = "array" /\ last.resp.items = <<>>)
    => /\ ~last.ok
       /\ last.err = "NoLatestVersion"
       /\ client = None

\* The empty list has been answered with NoLatestVersion.
C2_Witness ==
    /\ last.op = "create"
    /\ last.resp = JArray(<<>>)
    /\ ~last.ok
    /\ last.err = "NoLatestVersion"
    /\ client = None

\* C3: when the body of the version endpoint is not JSON, or is JSON but not
\* an array of strings, construction fails with a decode error and there is
\* no client.
C3_DecodeError ==
    (/\ last.op = "create"
     /\ \/ last.resp.kind \in {"garbage", "object"}
        \/ last.resp.kind = "array" /\ ~AllStrings(last.resp))
    => /\ ~last.ok
       /\ last.err \in DecodeErrors
       /\ client = None

\* Text that is not JSON has been answered with a decode error.
C3_Witness ==
    /\ last.op = "create"
    /\ last.resp = Garbage
    /\ ~last.ok
    /\ last.err \in DecodeErrors
    /\ client = None

\* C4: when the request to the version endpoint fails, construction fails
\* with the transport error; and whatever the endpoint does, construction
\* gives either a client holding the first version of the list returned, or
\* an error and no client.
C4_ClientOrError ==
    last.op = "create"
    => /\ last.resp.kind = "fail" => (~last.ok /\ last.err = "Request")
       /\ last.ok <=> client # None
       /\ ~last.ok => last.err \in DDragonClientError
       /\ last.ok => last.err = ""
       /\ client # None =>
            /\ last.resp.kind = "array"
            /\ Len(last.resp.items) >= 1
            /\ client[1].version = last.resp.items[1].text

\* A request that failed has been answered with the transport error.
C4_Witness ==
    /\ last.op = "create"
    /\ last.resp = TransportFailure
    /\ ~last.ok
    /\ last.err = "Request"
    /\ client = None

----------------------------------------------------------------------------
(* Claims on URL construction, under SpecUrl *)

\* The text of the data-root URL as the claim writes it: the base URL, then
\* /cdn/{version}/data/en_US/.
ExpectedDataUrl(c) ==
    <<c.base_url.origin, Slash, "cdn", Slash>> \o c.version
        \o <<Slash, "data", Slash, "en_US", Slash>>

\* A segment of the version text is "." or "..".
HasDotSegment(version) ==
    \E i \in 1..Len(SplitSegments(version)) :
        SplitSegments(version)[i] \in {<<Dot>>, <<Dot, Dot>>}

\* C5 as stated: for any version, get_data_url gives the base URL followed
\* by /cdn/{version}/data/en_US/.
C5_AnyVersion ==
    last.op = "get_data_url" => last.url = ExpectedDataUrl(client[1])

\* C5 as amended: for a base URL without a path and a version none of whose
\* segments is "." or "..", get_data_url gives the base URL followed by
\* /cdn/{version}/data/en_US/, with the trailing slash and the locale en_US.
C5_PlainVersion ==
    (last.op = "get_data_url" /\ ~HasDotSegment(client[1].version))
    => last.url = ExpectedDataUrl(client[1])

\* The case of the test: version 0.0.0 against the base URL of the tests.
C5_Witness ==
    /\ last.op = "get_data_url"
    /\ client[1].version = <<"0", Dot, "0", Dot, "0">>
    /\ last.url = <<"http://127.0.0.1:1234", Slash, "cdn", Slash, "0", Dot, "0", Dot, "0",
                    Slash, "data", Slash, "en_US", Slash>>

\* The file that the claims give to each accessor.
FileName(T) ==
    CASE T = "Challenges"     -> "challenges.json"
      [] T = "Champions"      -> "champion.json"
      [] T = "Items"          -> "item.json"
      [] T = "Runes"          -> "runesReforged.json"
      [] T = "SummonerSpells" -> "summoner.json"
      [] T = "Translations"   -> "language.json"

\* C17 as stated: for any version, each accessor requests the base URL
\* followed by /cdn/{version}/data/en_US/ and the file of the accessor.
C17_AnyVersion ==
    last.op \in DocTypes
    => last.url = ExpectedDataUrl(client[1]) \o <<FileName(last.op)>>

\* C17 as amended: each accessor requests the text of the data-root URL
\* followed by the file of the accessor, so the path of the data root and
\* not only the host is kept; the six request URLs of a client are pairwise
\* distinct; and for a version none of whose segments is "." or ".." the
\* URL requested is the base URL followed by /cdn/{version}/data/en_US/ and
\* the file.
C17_UnderDataRoot ==
    /\ last.op \in DocTypes
       => /\ last.url = AsStr(get_data_url(client[1])) \o <<FileName(last.op)>>
          /\ ~HasDotSegment(client[1].version)
             => last.url = ExpectedDataUrl(client[1]) \o <<FileName(last.op)>>
    /\ client # None
       => Cardinality({RequestUrl(client[1], Endpoint(T)) : T \in DocTypes}) = 6

\* The client of version 0.0.0 has requested the runes from the base URL of
\* the tests.
C17_Witness ==
    /\ last.op = "Runes"
    /\ client[1].version = <<"0", Dot, "0", Dot, "0">>
    /\ last.net = 1
    /\ last.url = <<"http://127.0.0.1:1234", Slash, "cdn", Slash, "0", Dot, "0", Dot, "0",
                    Slash, "data", Slash, "en_US", Slash, "runesReforged.json">>

----------------------------------------------------------------------------
(* Claims on get_data, under Spec *)

\* The key of the request of accessor T by the client.
KeyOf(T) == RequestUrl(client[1], Endpoint(T))

\* The client has a cache directory.
Caching == client # None /\ client[1].cache_dir # None

\* The store of the cache directory of the client.
StoreOfClient == cache[client[1].cache_dir[1]]

\* The store holds, under the key of accessor T, bytes that can be read and
\* that decode into T.
HoldsDecodable(store, T) ==
    /\ KeyOf(T) \in DOMAIN store
    /\ store[KeyOf(T)].kind # "corrupt"
    /\ FromStr(T, store[KeyOf(T)]).ok

\* The store holds, under the key of accessor T, an entry that cannot be
\* read or whose bytes do not decode into T.
HoldsUndecodable(store, T) ==
    /\ KeyOf(T) \in DOMAIN store
    /\ \/ store[KeyOf(T)].kind = "corrupt"
       \/ ~FromStr(T, store[KeyOf(T)]).ok

\* The response is a body that was read and that decodes into T.
Decodes(T, resp) ==
    /\ resp.kind \notin {"fail", "unreadable", "none"}
    /\ FromStr(T, resp).ok

\* C6: with a cache directory, a call whose key holds bytes that decode into
\* the type of the accessor returns the decoded value of those bytes, sends
\* no request, and leaves the cache as it is.
C6_CacheHit ==
    [][\A T \in DocTypes :
        (last'.op = T /\ Caching /\ HoldsDecodable(StoreOfClient, T))
        => /\ last'.ok
           /\ last'.hit
           /\ last'.net = 0
           /\ last'.resp = NoText
           /\ last'.value = FromStr(T, StoreOfClient[KeyOf(T)]).value
           /\ cache' = cache]_vars

\* summoner_spells has returned the spell of the document in the cache
\* without a request.
C6_Witness ==
    /\ last.op = "SummonerSpells"
    /\ Caching
    /\ KeyOf("SummonerSpells") \in DOMAIN StoreOfClient
    /\ StoreOfClient[KeyOf("SummonerSpells")] = SpellDoc(SummonerSpellFields, "&nbsp;")
    /\ last.ok
    /\ last.hit
    /\ last.net = 0
    /\ last.value = Document("10.1.1", <<Spell("Nbsp", "NoCost", "Spell0Png")>>)

\* C7: with a cache directory, a call whose key holds an entry that cannot
\* be read, or bytes that do not decode, sends one request and returns what
\* that request gives: the decoded response when it decodes, and otherwise
\* the error of the request, never one of the cache.
C7_CacheFallback ==
    [][\A T \in DocTypes :
        (last'.op = T /\ Caching /\ HoldsUndecodable(StoreOfClient, T))
        => /\ ~last'.hit
           /\ last'.net = 1
           /\ last'.resp \in DataResponses
           /\ last'.ok <=> Decodes(T, last'.resp)
           /\ last'.ok => last'.value = FromStr(T, last'.resp).value
           /\ ~last'.ok =>
                last'.err = CASE last'.resp.kind = "fail"       -> "Request"
                              [] last'.resp.kind = "unreadable" -> "Parse"
                              [] OTHER                          -> "JSONParse"]_vars

\* challenges has succeeded by a request while its key holds text that is
\* not JSON (the write after the request did not replace it).
C7_Witness ==
    /\ last.op = "Challenges"
    /\ Caching
    /\ KeyOf("Challenges") \in DOMAIN StoreOfClient
    /\ StoreOfClient[KeyOf("Challenges")] = Garbage
    /\ last.ok
    /\ ~last.hit
    /\ last.net = 1
    /\ last.wrote = "failed"
    /\ last.value = Document("10.1.1", <<>>)

\* C8: without a cache directory every call sends one request, takes nothing
\* from the cache and leaves every store as it is; and a call that follows a
\* call of the same accessor and gets the same body returns the same result.
C8_NoCache ==
    [][\A T \in DocTypes :
        (last'.op = T /\ client # None /\ client[1].cache_dir = None)
        => /\ last'.net = 1
           /\ ~last'.hit
           /\ last'.wrote = "none"
           /\ cache' = cache
           /\ (last.op = T /\ last.resp = last'.resp)
              => /\ last'.ok = last.ok
                 /\ last'.err = last.err
                 /\ last'.value = last.value]_vars

\* A client without a cache directory has fetched the challenges while the
\* directory "cache" holds a document under the same key.
C8_Witness ==
    /\ last.op = "Challenges"
    /\ client # None
    /\ client[1].cache_dir = None
    /\ KeyOf("Challenges") \in DOMAIN cache["cache"]
    /\ cache["cache"][KeyOf("Challenges")] = OlderDoc
    /\ last.resp = EmptyDoc
    /\ last.net = 1
    /\ last.ok
    /\ last.value = Document("10.1.1", <<>>)

\* C9: a call that sends its request and gets no response returns the
\* transport error, after that one request.
C9_TransportFailure ==
    (last.op \in DocTypes /\ last.resp.kind = "fail")
    => /\ ~last.ok
       /\ last.err = "Request"
       /\ last.net = 1
       /\ ~last.hit
       /\ last.wrote = "none"

\* A client with a cache directory has missed the cache and got no response.
C9_Witness ==
    /\ last.op = "Runes"
    /\ Caching
    /\ last.resp = TransportFailure
    /\ last.net = 1
    /\ ~last.ok
    /\ last.err = "Request"

\* C10: a call that sends its request and gets a body that does not decode
\* into the type of the accessor (text that is not JSON, a document without
\* a required member, a string outside an enumeration) returns the decode
\* error, whichever of the six accessors it is.
C10_DecodeFailure ==
    (/\ last.op \in DocTypes
     /\ last.net = 1
     /\ \/ last.resp \in {Garbage, NoVersionDoc}
        \/ last.op = "SummonerSpells"
           /\ last.resp \in {SpellDoc(SummonerSpellFields, "Mana"),
                             SpellDoc(SummonerSpellFields \ {"name"}, "&nbsp;")}
        \/ last.resp.kind \in {"garbage", "array", "object"}
           /\ ~FromStr(last.op, last.resp).ok)
    => /\ ~last.ok
       /\ last.err = "JSONParse"

\* summoner_spells has got a spell whose cost type is outside the
\* enumeration, and has returned the decode error.
C10_Witness ==
    /\ last.op = "SummonerSpells"
    /\ last.resp = SpellDoc(SummonerSpellFields, "Mana")
    /\ last.net = 1
    /\ ~last.ok
    /\ last.err = "JSONParse"

\* C11: with a cache directory, when the request of a call has succeeded and
\* its body has decoded but the store has not taken the write, the call
\* still returns the decoded value of the body and no error, it has sent its
\* one request and no other, and the store is as it was before the call.
C11_WriteFailureIgnored ==
    [][\A T \in DocTypes :
        (last'.op = T /\ Caching /\ last'.wrote = "failed")
        => /\ last'.ok
           /\ last'.err = ""
           /\ last'.net = 1
           /\ Decodes(T, last'.resp)
           /\ last'.value = FromStr(T, last'.resp).value
           /\ cache' = cache]_vars

\* summoner_spells has returned the spell of the response while the store,
\* which did not take the write, holds nothing under its key.
C11_Witness ==
    /\ last.op = "SummonerSpells"
    /\ Caching
    /\ KeyOf("SummonerSpells") \notin DOMAIN StoreOfClient
    /\ last.resp = SpellDoc(SummonerSpellFields, "&nbsp;")
    /\ last.wrote = "failed"
    /\ last.ok
    /\ last.net = 1
    /\ last.value = Document("10.1.1", <<Spell("Nbsp", "NoCost", "Spell0Png")>>)

\* C16: with a cache directory, after a call that found no value in the
\* cache, succeeded by its request and whose write the store took, the
\* cache holds the response text under the request URL of the call; and the
\* call of the same accessor that follows returns the same value from the
\* cache, without a request.
C16_Populated ==
    [][\A T \in DocTypes :
        /\ (last'.op = T /\ Caching /\ last'.wrote = "ok")
           => /\ ~last'.hit
              /\ last'.net = 1
              /\ last'.ok
              /\ last'.url = KeyOf(T)
              /\ KeyOf(T) \in DOMAIN cache'[client[1].cache_dir[1]]
              /\ cache'[client[1].cache_dir[1]][KeyOf(T)] = last'.resp
        /\ (last.op = T /\ Caching /\ last.wrote = "ok" /\ last'.op = T)
           => /\ last'.ok
              /\ last'.hit
              /\ last'.net = 0
              /\ last'.value = last.value
              /\ cache' = cache]_vars

\* summoner_spells has got its document from the server, and the cache
\* holds the text of the response under its key.
C16_Witness ==
    /\ last.op = "SummonerSpells"
    /\ Caching
    /\ last.wrote = "ok"
    /\ last.net = 1
    /\ last.resp = SpellDoc(SummonerSpellFields, "&nbsp;")
    /\ KeyOf("SummonerSpells") \in DOMAIN StoreOfClient
    /\ StoreOfClient[KeyOf("SummonerSpells")] = SpellDoc(SummonerSpellFields, "&nbsp;")

\* C18: construction sends exactly one request; a call of an accessor
\* sends one request or none, none exactly when its value comes from the
\* cache, and one whether the request ends in a value or in an error.
C18_NoRetry ==
    /\ last.op = "create" => last.net = 1
    /\ last.op \in DocTypes
       => /\ last.net \in {0, 1}
          /\ last.net = 0 <=> last.hit
          /\ ~last.ok => last.net = 1

\* items has got no response to its one request and has returned the
\* transport error.
C18_Witness ==
    /\ last.op = "Items"
    /\ last.resp = TransportFailure
    /\ ~last.ok
    /\ last.err = "Request"
    /\ last.net = 1

\* C19: a call of an accessor, whether it returns a value or an error,
\* leaves the version, the base URL and the cache directory of the client
\* as they are.
C19_ClientUnchanged ==
    [][last'.op \in DocTypes
        => /\ client' = client
           /\ client'[1].version = client[1].version
           /\ client'[1].base_url = client[1].base_url
           /\ client'[1].cache_dir = client[1].cache_dir]_vars

\* translations has returned a decode error, and the client is the one that
\* with_cache made.
C19_Witness ==
    /\ last.op = "Translations"
    /\ ~last.ok
    /\ last.err = "JSONParse"
    /\ client = Some(DDragonClient(NewestVersion, UrlParse(BaseUrlText), Some("cache")))

\* A call of accessor T changes the stores only by a write of the response
\* text under its key, after a request whose response decoded; a call that
\* returns an error, or a value of the cache, changes nothing.
WritesAfterDecode(T) ==
    /\ (~last'.ok \/ last'.hit) => cache' = cache
    /\ cache' # cache
       => /\ Caching
          /\ last'.ok
          /\ last'.net = 1
          /\ Decodes(T, last'.resp)
          /\ cache' = [cache EXCEPT ![client[1].cache_dir[1]] =
                          WriteSync(@, KeyOf(T), last'.resp)]

\* C20 as stated: the cache is written only after a response was read and
\* decoded, and an entry that does not decode is replaced by the response
\* text whenever the request that follows it succeeds.
C20_AlwaysReplaced ==
    [][\A T \in DocTypes :
        last'.op = T
        => /\ WritesAfterDecode(T)
           /\ (Caching /\ HoldsUndecodable(StoreOfClient, T) /\ last'.ok)
              => cache'[client[1].cache_dir[1]][KeyOf(T)] = last'.resp]_vars

\* C20 as amended: the cache is written only after a response was read and
\* decoded, and an entry that does not decode is replaced by the response
\* text when the request that follows it succeeds and the store takes the
\* write.
C20_WrittenAfterDecode ==
    [][\A T \in DocTypes :
        last'.op = T
        => /\ WritesAfterDecode(T)
           /\ (/\ Caching /\ HoldsUndecodable(StoreOfClient, T)
               /\ last'.ok /\ last'.wrote = "ok")
              => cache'[client[1].cache_dir[1]][KeyOf(T)] = last'.resp]_vars

\* runes has found no value in the cache, has got the document from the
\* server, and the cache holds the text of the document under its key.
C20_Witness ==
    /\ last.op = "Runes"
    /\ Caching
    /\ ~last.hit
    /\ last.ok
    /\ last.wrote = "ok"
    /\ last.resp = OlderDoc
    /\ StoreOfClient = (KeyOf("Runes") :> OlderDoc)

----------------------------------------------------------------------------
(* Claims on the cache in front of a server whose documents do not change,
   under SpecServed *)

\* The result of a call of accessor T is the result of the request alone:
\* what a client without a cache directory returns.
LiveResult(T) ==
    /\ last'.ok = Fetch(T, Served(T)).ok
    /\ last'.err = Fetch(T, Served(T)).err
    /\ last'.value = Fetch(T, Served(T)).value

\* C12 as stated: whatever the cache directory holds, every call of a client
\* with a cache directory returns what a live fetch of the same request
\* returns.
C12_Transparent ==
    [][\A T \in DocTypes : (last'.op = T /\ Caching) => LiveResult(T)]_vars

\* C12 as amended: a call whose key holds nothing, an entry that cannot be
\* read, or bytes that do not decode, returns what a live fetch returns,
\* value or error; a call whose key holds bytes that decode returns the
\* decoded value of those bytes without error, which is what a live fetch
\* returns when the bytes are those the server serves.
C12_TransparentWhenFresh ==
    [][\A T \in DocTypes :
        (last'.op = T /\ Caching)
        => /\ ~HoldsDecodable(StoreOfClient, T) => LiveResult(T)
           /\ HoldsDecodable(StoreOfClient, T)
              => /\ last'.ok
                 /\ last'.err = ""
                 /\ last'.value = FromStr(T, StoreOfClient[KeyOf(T)]).value
                 /\ StoreOfClient[KeyOf(T)] = Served(T) => LiveResult(T)]_vars

\* champions, whose entry in the cache cannot be read, has asked the server
\* and returned the transport error of that request.
C12_Witness ==
    /\ Caching
    /\ last.op = "Champions"
    /\ StoreOfClient = (KeyOf("Champions") :> CorruptEntry)
    /\ last.net = 1
    /\ ~last.ok
    /\ last.err = "Request"

----------------------------------------------------------------------------
(* Claims on clients of several versions with one cache directory, under
   SpecShared *)

\* A client of version v with the base URL and the cache directory of the
\* client.
OtherClient(v) == DDragonClient(v, client[1].base_url, client[1].cache_dir)

\* The stores, holding nothing but the entry that the last call wrote.
JustWritten ==
    [d \in CacheDirs |->
        IF d = client[1].cache_dir[1] THEN (last.url :> cache[d][last.url])
        ELSE [k \in {} |-> NoText]]

\* Once the client has written an entry, a client of version v with the same
\* cache directory has another key for the same accessor, and none of its
\* six calls reads the entry.
NotReadUnder(v) ==
    /\ RequestUrl(OtherClient(v), Endpoint(last.op)) # last.url
    /\ \A T \in DocTypes :
         ~CacheLookup(OtherClient(v), JustWritten, T,
                      RequestUrl(OtherClient(v), Endpoint(T))).hit

\* C13 as stated: an entry written by a client is under a key that no client
\* of another version uses, and is read by no call of such a client.
C13_AnyVersions ==
    (last.op \in DocTypes /\ Caching /\ last.wrote = "ok")
    => \A v \in SharedVersions \ {client[1].version} : NotReadUnder(v)

\* C13 as amended: the same, for versions none of whose segments is "." or
\* "..".
C13_PlainVersions ==
    (/\ last.op \in DocTypes /\ Caching /\ last.wrote = "ok"
     /\ ~HasDotSegment(client[1].version))
    => \A v \in SharedVersions \ {client[1].version} :
         ~HasDotSegment(v) => NotReadUnder(v)

\* The client of version 1.1.1 has written the summoner spells, and the
\* client of version 0.0.0 has another key.
C13_Witness ==
    /\ last.op = "SummonerSpells"
    /\ Caching
    /\ client[1].version = NewestVersion
    /\ last.wrote = "ok"
    /\ last.url \in DOMAIN StoreOfClient
    /\ StoreOfClient[last.url] = SpellDoc(SummonerSpellFields, "&nbsp;")
    /\ RequestUrl(OtherClient(<<"0", Dot, "0", Dot, "0">>), Endpoint("SummonerSpells"))
         \notin DOMAIN StoreOfClient

----------------------------------------------------------------------------
(* Claims on calls from several threads, under SpecThreads *)

\* Thread t returns from the write of its call in this step.
Writes(t) == calls[t].pc = "write" /\ calls'[t].pc = "idle"

\* The store of the cache directory of the call of thread t.
StoreOf(t, stores) == stores[calls[t].c[1].cache_dir[1]]

\* C14 as stated: whatever the interleaving, a write under a key that has an
\* entry carries the bytes of that entry, so that no key ever changes its
\* content.
C14_SameBytes ==
    [][\A d \in CacheDirs : \A k \in DOMAIN cache[d] :
          k \in DOMAIN cache'[d] /\ cache'[d][k] = cache[d][k]]_vars

\* C14 as amended: whatever the interleaving, a write carries the response
\* text that its own call received, under the key of that call, and leaves
\* every other key as it is; when the key already holds those bytes the
\* write changes nothing; and only a write changes the store.
C14_WritesOwnResponse ==
    [][/\ \A t \in Threads :
            Writes(t)
            => /\ \A k \in DOMAIN StoreOf(t, cache) \ {calls[t].url} :
                    /\ k \in DOMAIN StoreOf(t, cache')
                    /\ StoreOf(t, cache')[k] = StoreOf(t, cache)[k]
               /\ \/ cache' = cache
                  \/ /\ calls[t].url \in DOMAIN StoreOf(t, cache')
                     /\ StoreOf(t, cache')[calls[t].url] = calls[t].resp
               /\ (/\ calls[t].url \in DOMAIN StoreOf(t, cache)
                   /\ StoreOf(t, cache)[calls[t].url] = calls[t].resp)
                  => cache' = cache
               /\ last'.wrote = "ok"
                  => /\ calls[t].url \in DOMAIN StoreOf(t, cache')
                     /\ StoreOf(t, cache')[calls[t].url] = calls[t].resp
       /\ cache' # cache => \E t \in Threads : Writes(t)]_vars

\* Two threads have missed the cache and received the same text for the
\* same key; the first has written it and returned, and the second, about to
\* write, finds its bytes under the key.
C14_Witness ==
    /\ calls[1].pc = "write"
    /\ calls[2].pc = "idle"
    /\ last.op = "Challenges"
    /\ last.wrote = "ok"
    /\ last.url = calls[1].url
    /\ last.resp = calls[1].resp
    /\ calls[1].url \in DOMAIN cache["cache"]
    /\ cache["cache"][calls[1].url] = calls[1].resp

----------------------------------------------------------------------------
(* Claims on the cost types, under SpecCostType *)

\* The variant that the claim gives to a wire string.
CostTypeOf(s) == IF s = "&nbsp;" THEN "Nbsp" ELSE "NoCost"

\* C15: a spell whose other members decode is decoded exactly when its
\* costType and its resource are each "&nbsp;" or "No Cost"; "&nbsp;" gives
\* Nbsp and "No Cost" gives NoCost; the two variants are encoded as different
\* strings; and the encoding of the variant decoded is the wire string, which
\* decodes into the same variant again.
C15_CostType ==
    (/\ last.op = "SummonerSpells"
     /\ last.net = 1
     /\ last.resp.kind = "object"
     /\ Len(last.resp.data) = 1)
    => /\ last.ok <=> (/\ last.resp.data[1].costType \in {"&nbsp;", "No Cost"}
                       /\ last.resp.data[1].resource \in {"&nbsp;", "No Cost"})
       /\ ~last.ok => last.err = "JSONParse"
       /\ EncodeCostType("Nbsp") # EncodeCostType("NoCost")
       /\ last.ok
          => /\ last.value.data[1].cost_type = CostTypeOf(last.resp.data[1].costType)
             /\ last.value.data[1].resource = CostTypeOf(last.resp.data[1].resource)
             /\ EncodeCostType(last.value.data[1].cost_type) = last.resp.data[1].costType
             /\ EncodeCostType(last.value.data[1].resource) = last.resp.data[1].resource
             /\ DecodeCostType(EncodeCostType(last.value.data[1].cost_type))
                  = last.value.data[1].cost_type
             /\ DecodeCostType(EncodeCostType(last.value.data[1].resource))
                  = last.value.data[1].resource

\* A spell of cost type "No Cost" and resource "&nbsp;" has been decoded
\* into NoCost and Nbsp.
C15_Witness ==
    /\ last.op = "SummonerSpells"
    /\ last.net = 1
    /\ last.resp.kind = "object"
    /\ Len(last.resp.data) = 1
    /\ last.resp.data[1].costType = "No Cost"
    /\ last.resp.data[1].resource = "&nbsp;"
    /\ last.ok
    /\ last.value.data[1].cost_type = "NoCost"
    /\ last.value.data[1].resource = "Nbsp"

====
